---- MODULE Spec2Model ----
(***************************************************************************)
(* State-machine model of sec_connector: SECClient (client.py) and the     *)
(* pydantic models Company, Filing and FilingFilter (models.py).           *)
(*                                                                         *)
(* Python strings are sequences of one-character strings, so that strip,   *)
(* upper, zfill, isdigit and date.fromisoformat are computed and not       *)
(* assumed.  Python values of varying type (the values of the raw dicts)   *)
(* are records [t, n, s, d]: a type tag, an int, a str and a date.         *)
(***************************************************************************)
EXTENDS Integers, Sequences, FiniteSets, TLC

VARIABLES companies, filings, user_agent, call, result, requests, response

vars == <<companies, filings, user_agent, call, result, requests, response>>

(***************************************************************************)
(* Bounds of the model.                                                    *)
(***************************************************************************)
MaxTickerLen == 3
MaxFilings == 2
MaxLimit == 2

(***************************************************************************)
(* Program constants.                                                      *)
(***************************************************************************)
CikWidth == 10
DefaultLimit == 10
RequestTimeout == 30

(***************************************************************************)
(* Python str operations.                                                  *)
(***************************************************************************)
Whitespace == {" "}
Digits == {"0", "1", "2", "3", "4", "5", "6", "7", "8", "9"}

UpperChar(c) ==
    CASE c = "a" -> "A"
      [] c = "k" -> "K"
      [] c = "q" -> "Q"
      [] c = "x" -> "X"
      [] OTHER -> c

StrUpper(s) == [i \in 1..Len(s) |-> UpperChar(s[i])]

RECURSIVE LStrip(_)
LStrip(s) == IF s # <<>> /\ Head(s) \in Whitespace THEN LStrip(Tail(s)) ELSE s

RECURSIVE RStrip(_)
RStrip(s) ==
    IF s # <<>> /\ s[Len(s)] \in Whitespace
    THEN RStrip(SubSeq(s, 1, Len(s) - 1))
    ELSE s

Strip(s) == RStrip(LStrip(s))

IsDigit(s) == s # <<>> /\ \A i \in 1..Len(s) : s[i] \in Digits

Zeros(n) == [i \in 1..n |-> "0"]

\* str.zfill: pads on the left with "0" up to the width, after a leading sign;
\* a string of the width or longer is returned as it is.
Zfill(s, width) ==
    IF Len(s) >= width THEN s
    ELSE IF s # <<>> /\ Head(s) \in {"+", "-"}
         THEN <<Head(s)>> \o Zeros(width - Len(s)) \o Tail(s)
         ELSE Zeros(width - Len(s)) \o s

DigitChar(d) ==
    CASE d = 0 -> "0" [] d = 1 -> "1" [] d = 2 -> "2" [] d = 3 -> "3"
      [] d = 4 -> "4" [] d = 5 -> "5" [] d = 6 -> "6" [] d = 7 -> "7"
      [] d = 8 -> "8" [] d = 9 -> "9"

DigitVal(c) ==
    CASE c = "0" -> 0 [] c = "1" -> 1 [] c = "2" -> 2 [] c = "3" -> 3
      [] c = "4" -> 4 [] c = "5" -> 5 [] c = "6" -> 6 [] c = "7" -> 7
      [] c = "8" -> 8 [] c = "9" -> 9

\* str(n) of a non-negative int: its decimal digits, no leading zero.
RECURSIVE DecStr(_)
DecStr(n) == IF n < 10 THEN <<DigitChar(n)>> ELSE DecStr(n \div 10) \o <<DigitChar(n % 10)>>

(***************************************************************************)
(* Python values.                                                          *)
(***************************************************************************)
NoDate == [year |-> 0, month |-> 0, day |-> 0]

PyNone == [t |-> "none", n |-> 0, s |-> <<>>, d |-> NoDate]
PyInt(n) == [t |-> "int", n |-> n, s |-> <<>>, d |-> NoDate]
PyStrVal(s) == [t |-> "str", n |-> 0, s |-> s, d |-> NoDate]
PyDate(d) == [t |-> "date", n |-> 0, s |-> <<>>, d |-> d]

\* str(v)
PyStr(v) ==
    CASE v.t = "str" -> v.s
      [] v.t = "int" -> DecStr(v.n)
      [] v.t = "none" -> <<"N", "o", "n", "e">>

\* bool(v), as in `not v`
Truthy(v) ==
    CASE v.t = "str" -> v.s # <<>>
      [] v.t = "int" -> v.n # 0
      [] v.t = "none" -> FALSE
      [] v.t = "date" -> TRUE
      [] v.t = "list" -> v.s # <<>>

\* dict.get(key, default)
Get(dict, key, default) == IF key \in DOMAIN dict THEN dict[key] ELSE default

(***************************************************************************)
(* Outcomes of a call: a returned value or a raised ValueError.  pydantic's *)
(* ValidationError is a subclass of ValueError.                            *)
(***************************************************************************)
NoValue == <<>>

Return(v) == [status |-> "return", exc |-> "", msg |-> "", value |-> v]
Raise(exc, msg) == [status |-> "raise", exc |-> exc, msg |-> msg, value |-> NoValue]

(***************************************************************************)
(* models.py: Company.                                                     *)
(***************************************************************************)
\* Company.validate_ticker
validate_ticker(v) ==
    IF v = <<>> \/ Strip(v) = <<>>
    THEN Raise("ValidationError", "Ticker cannot be empty")
    ELSE Return(StrUpper(Strip(v)))

\* Company.validate_cik
validate_cik(v) ==
    IF v = <<>> \/ Strip(v) = <<>>
    THEN Raise("ValidationError", "CIK cannot be empty")
    ELSE Return(Strip(v))

\* Company.name: a str field with no validator; a value that is not a str is
\* refused by the type check.
validate_name(v) ==
    IF v.t # "str"
    THEN Raise("ValidationError", "Input should be a valid string")
    ELSE Return(v.s)

\* Company(ticker=..., cik=..., name=...)
Company(ticker, cik, name) ==
    LET t == validate_ticker(ticker)
        c == validate_cik(cik)
        n == validate_name(name)
    IN  IF t.status = "raise" THEN t
        ELSE IF c.status = "raise" THEN c
        ELSE IF n.status = "raise" THEN n
        ELSE Return([ticker |-> t.value, cik |-> c.value, name |-> n.value])

(***************************************************************************)
(* client.py: SECClient.lookup_company.                                    *)
(***************************************************************************)
\* line 48 without the test of the stripped ticker
TickerIsEmptyString(ticker) == ticker = <<>>

\* line 48
TickerIsEmpty(ticker) == ticker = <<>> \/ Strip(ticker) = <<>>

\* line 51 without strip()
NormalizeTickerNoStrip(ticker) == StrUpper(ticker)

\* line 51
NormalizeTicker(ticker) == StrUpper(Strip(ticker))

\* line 63 cutting the identifier to the width
PadCikTruncating(cik_raw) == SubSeq(Zfill(cik_raw, CikWidth), 1, CikWidth)

\* line 63
PadCik(cik_raw) == Zfill(cik_raw, CikWidth)

lookup_company(self_companies, ticker) ==
    IF TickerIsEmpty(ticker) THEN Raise("ValueError", "Ticker cannot be empty")
    ELSE LET t == NormalizeTicker(ticker) IN
        IF t \notin DOMAIN self_companies
        THEN Raise("ValueError", "Company with ticker not found")
        ELSE LET company_info == self_companies[t]
                 cik_raw == PyStr(Get(company_info, "cik_str", PyStrVal(<<>>)))
             IN  IF cik_raw = <<>> THEN Raise("ValueError", "No CIK found for ticker")
                 ELSE LET cik == PadCik(cik_raw)
                          name == Get(company_info, "title", PyStrVal(<<>>))
                      IN  IF ~Truthy(name)
                          THEN Raise("ValueError", "No company name found for ticker")
                          ELSE Company(t, cik, name)

(***************************************************************************)
(* datetime.date: a calendar date, ordered by (year, month, day).          *)
(***************************************************************************)
IsLeap(y) == (y % 4 = 0 /\ y % 100 # 0) \/ y % 400 = 0

DaysInMonth(y, m) ==
    CASE m \in {1, 3, 5, 7, 8, 10, 12} -> 31
      [] m \in {4, 6, 9, 11} -> 30
      [] m = 2 -> IF IsLeap(y) THEN 29 ELSE 28

Num2(s, i) == DigitVal(s[i]) * 10 + DigitVal(s[i + 1])

\* date.fromisoformat on the extended format YYYY-MM-DD
fromisoformat(s) ==
    IF /\ Len(s) = 10
       /\ s[5] = "-" /\ s[8] = "-"
       /\ \A i \in {1, 2, 3, 4, 6, 7, 9, 10} : s[i] \in Digits
    THEN LET y == Num2(s, 1) * 100 + Num2(s, 3)
             m == Num2(s, 6)
             d == Num2(s, 9)
         IN  IF y >= 1 /\ m \in 1..12 /\ d >= 1 /\ d <= DaysInMonth(y, m)
             THEN Return([year |-> y, month |-> m, day |-> d])
             ELSE Raise("ValueError", "Invalid isoformat string")
    ELSE Raise("ValueError", "Invalid isoformat string")

DateOrd(d) == d.year * 10000 + d.month * 100 + d.day

DateGE(a, b) == DateOrd(a) >= DateOrd(b)
DateLE(a, b) == DateOrd(a) <= DateOrd(b)
DateGT(a, b) == DateOrd(a) > DateOrd(b)

\* date.today(): the clock of the session
Today == [year |-> 2024, month |-> 6, day |-> 30]

(***************************************************************************)
(* models.py: Filing.                                                      *)
(***************************************************************************)
\* a str field's type check
validate_str(v) ==
    IF v.t # "str"
    THEN Raise("ValidationError", "Input should be a valid string")
    ELSE Return(v.s)

\* Filing.validate_form_type
validate_form_type(v) ==
    IF v = <<>> \/ Strip(v) = <<>>
    THEN Raise("ValidationError", "Form type cannot be empty")
    ELSE Return(Strip(v))

\* Filing.validate_accession_number
validate_accession_number(v) ==
    IF v = <<>> \/ Strip(v) = <<>>
    THEN Raise("ValidationError", "Accession number cannot be empty")
    ELSE Return(Strip(v))

\* Filing(cik=..., company_name=..., form_type=..., filing_date=..., accession_number=...)
\* cik is a str and filing_date a date at the only call site.
Filing(cik, company_name, form_type, filing_date, accession_number) ==
    LET n == validate_str(company_name)
        ft == validate_str(form_type)
        f == IF ft.status = "raise" THEN ft ELSE validate_form_type(ft.value)
        at == validate_str(accession_number)
        a == IF at.status = "raise" THEN at ELSE validate_accession_number(at.value)
    IN  IF n.status = "raise" THEN n
        ELSE IF f.status = "raise" THEN f
        ELSE IF a.status = "raise" THEN a
        ELSE Return([cik |-> cik, company_name |-> n.value, form_type |-> f.value,
                     filing_date |-> filing_date, accession_number |-> a.value])

(***************************************************************************)
(* models.py: FilingFilter.                                                *)
(***************************************************************************)
PyList(l) == [t |-> "list", n |-> 0, s |-> l, d |-> NoDate]

\* validate_limit with v < 0 as its test
validate_limit_negative_only(v) ==
    IF v < 0
    THEN Raise("ValidationError", "Limit must be greater than 0")
    ELSE Return(v)

\* FilingFilter.validate_limit
validate_limit(v) ==
    IF v <= 0
    THEN Raise("ValidationError", "Limit must be greater than 0")
    ELSE Return(v)

\* FilingFilter.validate_dates
validate_dates(v) ==
    IF v.t # "none" /\ DateGT(v.d, Today)
    THEN Raise("ValidationError", "Date cannot be in the future")
    ELSE Return(v)

\* FilingFilter(**kwargs): a field that is not given takes its default, which
\* no validator sees.
FilingFilter(kwargs) ==
    LET df == IF "date_from" \in DOMAIN kwargs
              THEN validate_dates(kwargs["date_from"]) ELSE Return(PyNone)
        dt == IF "date_to" \in DOMAIN kwargs
              THEN validate_dates(kwargs["date_to"]) ELSE Return(PyNone)
        lm == IF "limit" \in DOMAIN kwargs
              THEN validate_limit(kwargs["limit"].n) ELSE Return(DefaultLimit)
    IN  IF df.status = "raise" THEN df
        ELSE IF dt.status = "raise" THEN dt
        ELSE IF lm.status = "raise" THEN lm
        ELSE Return([form_types |-> Get(kwargs, "form_types", PyNone),
                     date_from |-> df.value, date_to |-> dt.value,
                     limit |-> lm.value])

NoFilter == [form_types |-> PyNone, date_from |-> PyNone, date_to |-> PyNone, limit |-> 0]

(***************************************************************************)
(* client.py: SECClient.list_filings.                                      *)
(***************************************************************************)
CikIsEmpty(cik) == cik = <<>> \/ Strip(cik) = <<>>

\* lines 95-99 without the zero-padding
NormalizeCikNoPad(cik) == Strip(cik)

\* lines 95-99: strip, then zero-pad a cik that is all digits
NormalizeCik(cik) ==
    LET c == Strip(cik) IN IF IsDigit(c) THEN Zfill(c, CikWidth) ELSE c

\* lines 110-130: one raw dict to a Filing; "raise" stands for the record
\* being skipped (the continue of line 118 or the except of line 128).
ConvertFiling(raw_filing, cik) ==
    LET filing_date_str == Get(raw_filing, "filing_date", PyStrVal(<<>>))
        filing_date == CASE filing_date_str.t = "str" -> fromisoformat(filing_date_str.s)
                         [] filing_date_str.t = "date" -> Return(filing_date_str.d)
                         [] OTHER -> Raise("", "continue")
    IN  IF filing_date.status = "raise" THEN filing_date
        ELSE Filing(cik,
                    Get(raw_filing, "company_name", PyStrVal(<<>>)),
                    Get(raw_filing, "form_type", PyStrVal(<<>>)),
                    filing_date.value,
                    Get(raw_filing, "accession_number", PyStrVal(<<>>)))

\* lines 106-130 with the loop ending at the first record it cannot convert
RECURSIVE ConvertFilingsUntilInvalid(_, _)
ConvertFilingsUntilInvalid(raw_filings, cik) ==
    IF raw_filings = <<>> THEN <<>>
    ELSE LET f == ConvertFiling(Head(raw_filings), cik) IN
         IF f.status = "return"
         THEN <<f.value>> \o ConvertFilingsUntilInvalid(Tail(raw_filings), cik)
         ELSE <<>>

\* lines 106-130: the loop over raw_filings
RECURSIVE ConvertFilings(_, _)
ConvertFilings(raw_filings, cik) ==
    IF raw_filings = <<>> THEN <<>>
    ELSE LET f == ConvertFiling(Head(raw_filings), cik) IN
         (IF f.status = "return" THEN <<f.value>> ELSE <<>>)
             \o ConvertFilings(Tail(raw_filings), cik)

\* lines 133-135
FilterFormTypes(fs, filters) ==
    IF Truthy(filters.form_types)
    THEN LET form_types_upper ==
                 {StrUpper(filters.form_types.s[i]) : i \in 1..Len(filters.form_types.s)}
             Keep(f) == StrUpper(f.form_type) \in form_types_upper
         IN  SelectSeq(fs, Keep)
    ELSE fs

\* lines 138-139
FilterDateFrom(fs, filters) ==
    IF Truthy(filters.date_from)
    THEN LET Keep(f) == DateGE(f.filing_date, filters.date_from.d)
         IN  SelectSeq(fs, Keep)
    ELSE fs

\* the comparison of lines 141-142 turned round
FilterDateToReversed(fs, filters) ==
    IF Truthy(filters.date_to)
    THEN LET Keep(f) == DateGE(f.filing_date, filters.date_to.d)
         IN  SelectSeq(fs, Keep)
    ELSE fs

\* lines 141-142
FilterDateTo(fs, filters) ==
    IF Truthy(filters.date_to)
    THEN LET Keep(f) == DateLE(f.filing_date, filters.date_to.d)
         IN  SelectSeq(fs, Keep)
    ELSE fs

\* line 145 as a sort that puts x before the elements of its own date, so
\* turning round the elements of equal key
RECURSIVE InsertByDateDescBeforeEqual(_, _)
InsertByDateDescBeforeEqual(x, sorted) ==
    IF sorted = <<>> THEN <<x>>
    ELSE IF DateGT(Head(sorted).filing_date, x.filing_date)
         THEN <<Head(sorted)>> \o InsertByDateDescBeforeEqual(x, Tail(sorted))
         ELSE <<x>> \o sorted

\* list.sort(key=lambda f: f.filing_date, reverse=True): a stable sort, the
\* elements of equal key keeping their order also when reversed.  x goes
\* behind every element of sorted whose date is not below its own.
RECURSIVE InsertByDateDesc(_, _)
InsertByDateDesc(x, sorted) ==
    IF sorted = <<>> THEN <<x>>
    ELSE IF DateGE(Head(sorted).filing_date, x.filing_date)
         THEN <<Head(sorted)>> \o InsertByDateDesc(x, Tail(sorted))
         ELSE <<x>> \o sorted

RECURSIVE SortFrom(_, _)
SortFrom(fs, sorted) ==
    IF fs = <<>> THEN sorted
    ELSE SortFrom(Tail(fs), InsertByDateDesc(Head(fs), sorted))

\* line 145 without reverse=True
RECURSIVE InsertByDateAsc(_, _)
InsertByDateAsc(x, sorted) ==
    IF sorted = <<>> THEN <<x>>
    ELSE IF DateLE(Head(sorted).filing_date, x.filing_date)
         THEN <<Head(sorted)>> \o InsertByDateAsc(x, Tail(sorted))
         ELSE <<x>> \o sorted

RECURSIVE SortAscFrom(_, _)
SortAscFrom(fs, sorted) ==
    IF fs = <<>> THEN sorted
    ELSE SortAscFrom(Tail(fs), InsertByDateAsc(Head(fs), sorted))

SortByDateAsc(fs) == SortAscFrom(fs, <<>>)

\* line 145
SortByDateDesc(fs) == SortFrom(fs, <<>>)

\* line 148 as filings[-filters.limit:]
ApplyLimitFromEnd(fs, limit) ==
    SubSeq(fs, (IF limit < Len(fs) THEN Len(fs) - limit ELSE 0) + 1, Len(fs))

\* line 148: filings[:filters.limit], for a limit >= 0
ApplyLimit(fs, limit) == SubSeq(fs, 1, IF limit < Len(fs) THEN limit ELSE Len(fs))

\* lines 101-103 raising, as the docstring of list_filings has it
NoFilingsFoundRaises == Raise("ValueError", "CIK not found")

\* lines 101-103
NoFilingsFound == Return(<<>>)

list_filings(self_filings, cik, filters) ==
    IF CikIsEmpty(cik) THEN Raise("ValueError", "CIK cannot be empty")
    ELSE LET c == NormalizeCik(cik) IN
        IF c \notin DOMAIN self_filings THEN NoFilingsFound
        ELSE LET converted == ConvertFilings(self_filings[c], c)
                 by_form == FilterFormTypes(converted, filters)
                 by_from == FilterDateFrom(by_form, filters)
                 by_to == FilterDateTo(by_from, filters)
             IN  Return(ApplyLimit(SortByDateDesc(by_to), filters.limit))

\* lines 105-106 and 144-148 with the raw list turned round in place
CatalogAfterReverseInPlace(self_filings, cik) ==
    LET c == NormalizeCik(cik) IN
    IF CikIsEmpty(cik) \/ c \notin DOMAIN self_filings THEN self_filings
    ELSE [self_filings EXCEPT
             ![c] = [i \in 1..Len(self_filings[c]) |->
                        self_filings[c][Len(self_filings[c]) + 1 - i]]]

\* self._filings after list_filings: lines 105-106 read the raw list into the
\* new list `filings`, and that list is the one lines 135-148 rebind, sort
\* and cut; the raw list and its dicts are read only (dict.get).
CatalogAfterListFilings(self_filings, cik) == self_filings

(***************************************************************************)
(* client.py: SECClient.download_filing.                                   *)
(***************************************************************************)
\* self._base_url
BaseUrl ==
    <<"h", "t", "t", "p", "s", ":", "/", "/", "w", "w", "w", ".", "s",
      "e", "c", ".", "g", "o", "v", "/", "A", "r", "c", "h", "i", "v",
      "e", "s", "/", "e", "d", "g", "a", "r", "/", "d", "a", "t", "a">>

\* the default of the user_agent parameter of __init__
DefaultUserAgent == "SEC Connector/0.1.0"

AccessionIsEmpty(accession_number) ==
    accession_number = <<>> \/ Strip(accession_number) = <<>>

\* line 173 without the lstrip
KeepLeadingZeros(s) == s

\* str.lstrip('0')
RECURSIVE LStripZeros(_)
LStripZeros(s) == IF s # <<>> /\ Head(s) = "0" THEN LStripZeros(Tail(s)) ELSE s

\* str.replace(old, new) for a one-character old
RECURSIVE Replace(_, _, _)
Replace(s, old, new) ==
    IF s = <<>> THEN <<>>
    ELSE (IF Head(s) = old THEN new ELSE <<Head(s)>>) \o Replace(Tail(s), old, new)

\* lines 172-180: the f-string of the URL
FilingUrl(base_url, accession_number, cik) ==
    LET accession == Strip(accession_number)
        c == LStripZeros(Strip(cik))
        accession_no_dashes == Replace(accession, "-", <<>>)
    IN  base_url \o <<"/">> \o c \o <<"/">> \o accession_no_dashes \o <<"/">>
            \o accession \o <<".", "t", "x", "t">>

\* lines 183 and 187: client.get(url, headers=headers, timeout=30.0)
GetRequest(url, self_user_agent) ==
    [method |-> "GET", url |-> url, headers |-> ("User-Agent" :> self_user_agent),
     timeout |-> RequestTimeout]

\* what the network gives back to a request: a response with a status code
\* and a text, or a transport error (httpx.RequestError) with its str()
HttpResponse(status_code, text) ==
    [kind |-> "response", status_code |-> status_code, text |-> text, error |-> <<>>]
RequestError(description) ==
    [kind |-> "error", status_code |-> 0, text |-> <<>>, error |-> description]
NoResponse == [kind |-> "none", status_code |-> 0, text |-> <<>>, error |-> <<>>]

\* a request that is sent again, once, when it has failed
DownloadRequestsRetrying(self_user_agent, accession_number, cik, reply) ==
    IF AccessionIsEmpty(accession_number) \/ CikIsEmpty(cik) THEN <<>>
    ELSE LET get == GetRequest(FilingUrl(BaseUrl, accession_number, cik), self_user_agent)
         IN  IF reply.kind = "error" THEN <<get, get>> ELSE <<get>>

\* the requests one call of download_filing issues: none when line 166 or
\* 169 raises, else the one client.get of line 187; neither except clause
\* (lines 190-193) issues another, whatever the reply.
DownloadRequests(self_user_agent, accession_number, cik, reply) ==
    IF AccessionIsEmpty(accession_number) \/ CikIsEmpty(cik) THEN <<>>
    ELSE <<GetRequest(FilingUrl(BaseUrl, accession_number, cik), self_user_agent)>>

\* raise_for_status passing every status below 400
IsBelowClientError(status_code) == status_code < 400

\* Response.is_success, the test of raise_for_status (line 188)
IsSuccess(status_code) == 200 <= status_code /\ status_code <= 299

\* raise ValueError(f"...{detail}"): msg is the literal part of the f-string
\* and value its interpolated part
RaiseFormatted(exc, msg, detail) ==
    [status |-> "raise", exc |-> exc, msg |-> msg, value |-> detail]

\* lines 165-193; reply is the network's answer to the request of line 187
download_filing(accession_number, cik, reply) ==
    IF AccessionIsEmpty(accession_number)
    THEN Raise("ValueError", "Accession number cannot be empty")
    ELSE IF CikIsEmpty(cik) THEN Raise("ValueError", "CIK cannot be empty")
    ELSE IF reply.kind = "error"
    THEN RaiseFormatted("ValueError", "Failed to download filing: ", reply.error)
    ELSE IF ~IsSuccess(reply.status_code)
    THEN RaiseFormatted("ValueError", "Failed to download filing: HTTP ",
                        DecStr(reply.status_code))
    ELSE Return(reply.text)

(***************************************************************************)
(* The data of a session:the ticker -> info dicts given to __init__ and   *)
(* the cik -> raw filing list dicts given to add_filings_data.             *)
(***************************************************************************)
Absent == [t |-> "absent", n |-> 0, s |-> <<>>, d |-> NoDate]

\* a dict literal, a key of Absent value being left out
Dict(keys, val) == [k \in {x \in keys : val[x] # Absent} |-> val[k]]

AppleName == <<"A", "p", "p", "l", "e">>
AppleCik == <<"0", "0", "0", "0", "3", "2", "0", "1", "9", "3">>
AppleCikRaw == <<"3", "2", "0", "1", "9", "3">>
LongCik == <<"1", "2", "3", "4", "5", "6", "7", "8", "9", "0", "1">>

RawCiks ==
    {Absent, PyInt(0), PyInt(320193), PyInt(1234567890), PyStrVal(<<>>),
     PyStrVal(<<"4", "2">>), PyStrVal(AppleCik), PyStrVal(LongCik)}

RawTitles == {Absent, PyNone, PyStrVal(<<>>), PyStrVal(<<" ">>), PyStrVal(AppleName)}

CompanyInfos ==
    {Dict({"cik_str", "title"}, [cik_str |-> c, title |-> t]) : c \in RawCiks, t \in RawTitles}

\* the tickers of the Directory are upper-case
DirectoryKeys == {<<"A">>, <<"A", "A">>}

Directories == {<<>>} \cup {k :> info : k \in DirectoryKeys, info \in CompanyInfos}

SampleCompanies == <<"A">> :> [cik_str |-> PyInt(320193), title |-> PyStrVal(AppleName)]

TickerAlphabet == {"a", "A", " "}

Tickers == UNION {[1..n -> TickerAlphabet] : n \in 0..MaxTickerLen}

SampleTickers == {<<>>, <<"a">>, <<" ", "A">>, <<"a", "a">>}

DateB == [year |-> 2024, month |-> 2, day |-> 29]
DateFuture == [year |-> 2024, month |-> 7, day |-> 1]

StrDateA == <<"2", "0", "2", "4", "-", "0", "1", "-", "1", "5">>
StrDateC == <<"2", "0", "2", "4", "-", "0", "3", "-", "3", "1">>
StrDateBad == <<"2", "0", "2", "4", "-", "0", "2", "-", "3", "0">>

Form10K == <<"1", "0", "-", "K">>
Form10k == <<"1", "0", "-", "k">>
Form10Q == <<"1", "0", "-", "Q">>
Form10QSpaced == <<" ", "1", "0", "-", "Q", " ">>
Form8K == <<"8", "-", "K">>

RawFiling(company_name, form_type, filing_date, accession_number) ==
    Dict({"company_name", "form_type", "filing_date", "accession_number"},
         [company_name |-> company_name, form_type |-> form_type,
          filing_date |-> filing_date, accession_number |-> accession_number])

Acc(c) == PyStrVal(<<"a", c>>)

ValidRawFilings ==
    {RawFiling(PyStrVal(AppleName), PyStrVal(Form10K), PyStrVal(StrDateA), Acc("1")),
     RawFiling(Absent, PyStrVal(Form10QSpaced), PyStrVal(StrDateA), PyStrVal(<<" ", "a", "2">>)),
     RawFiling(PyStrVal(AppleName), PyStrVal(Form10k), PyDate(DateB), Acc("3")),
     RawFiling(PyStrVal(AppleName), PyStrVal(Form8K), PyStrVal(StrDateC), Acc("4"))}

MalformedRawFilings ==
    {RawFiling(PyStrVal(AppleName), PyStrVal(Form10K), PyStrVal(StrDateBad), Acc("5")),
     RawFiling(PyStrVal(AppleName), PyStrVal(Form10K), PyInt(20240115), Acc("6")),
     RawFiling(PyStrVal(AppleName), PyStrVal(<<" ", " ">>), PyStrVal(StrDateC), Acc("7")),
     RawFiling(PyStrVal(AppleName), PyStrVal(Form10Q), PyDate(DateB), Absent)}

RawFilings == ValidRawFilings \cup MalformedRawFilings

\* the raw lists of a catalog: no record twice (an accession number names one filing)
RawFilingLists ==
    UNION {{l \in [1..n -> RawFilings] : \A i, j \in 1..n : l[i] = l[j] => i = j} :
              n \in 0..MaxFilings}

OtherKey == <<"x", "1">>

Catalogs ==
    {AppleCik :> l : l \in RawFilingLists}
        \cup {OtherKey :> <<l>> : l \in ValidRawFilings}
        \cup {AppleCikRaw :> <<l>> : l \in ValidRawFilings}

SampleCatalogs ==
    {<<>>, AppleCik :> [i \in 1..1 |-> RawFiling(PyStrVal(AppleName), PyStrVal(Form10K),
                                                  PyStrVal(StrDateA), Acc("1"))]}

Ciks ==
    {<<>>, <<" ">>, AppleCikRaw, <<" ">> \o AppleCikRaw \o <<" ">>, AppleCik,
     <<" ">> \o OtherKey, <<"7">>}

SampleCiks == {<<>>, AppleCikRaw, <<"7">>}

FormTypeArgs ==
    {Absent, PyList(<<>>), PyList(<<Form10k>>), PyList(<<Form10Q, Form10K>>)}

Limits == {PyInt(n) : n \in 0..MaxLimit}

FilterKwargs ==
    {Dict({"form_types", "date_from", "date_to", "limit"},
          [form_types |-> ft, date_from |-> df, date_to |-> dt, limit |-> lm]) :
        ft \in FormTypeArgs, df \in {Absent, PyDate(DateB)},
        dt \in {Absent, PyDate(DateB)}, lm \in Limits}

SampleKwargs ==
    {<<>>,
     [form_types |-> PyList(<<Form10k>>), limit |-> PyInt(1)],
     [date_from |-> PyDate(DateB)],
     [date_to |-> PyDate(DateFuture)],
     [limit |-> PyInt(-1)]}

\* the arguments of a FilingFilter on both sides of what its validators
\* accept: limits around 0, dates around date.today()
ConstructorKwargs ==
    {Dict({"form_types", "date_from", "date_to", "limit"},
          [form_types |-> ft, date_from |-> df, date_to |-> dt, limit |-> lm]) :
        ft \in {Absent, PyList(<<Form10K>>)},
        df \in {Absent, PyNone, PyDate(Today), PyDate(DateFuture)},
        dt \in {Absent, PyDate(DateB), PyDate(Today), PyDate(DateFuture)},
        lm \in {Absent, PyInt(-1), PyInt(0), PyInt(1)}}

UserAgents == {DefaultUserAgent, "Research admin@example.com"}

Accessions ==
    {<<>>, <<" ">>, <<"a", "1">>, <<" ", "0", "1", "-", "2", "4", "-", "3", " ">>,
     <<"-", "a", "-", "-", "1", "-">>}

SampleAccessions == {<<>>, <<"a", "-", "1">>}

DownloadCiks ==
    {<<>>, <<" ">>, <<"0">>, <<"0", "0", "0">>, AppleCik, AppleCikRaw,
     <<" ", "0", "7", "0", " ">>}

FilingText == <<" ", "1", "0", "-", "K", " ">>

StatusCodes == {200, 299, 301, 404, 500}

ConnectionFailed ==
    <<"C", "o", "n", "n", "e", "c", "t", "i", "o", "n", " ", "f", "a", "i", "l", "e", "d">>

\* the answers of the network: a response of any status with or without a
\* text, a failed connection, and a timeout (whose str() is empty)
Responses ==
    {HttpResponse(status_code, text) : status_code \in StatusCodes, text \in {<<>>, FilingText}}
        \cup {RequestError(ConnectionFailed), RequestError(<<>>)}

SampleResponses == {HttpResponse(200, FilingText), HttpResponse(404, <<>>)}

(***************************************************************************)
(* The session: SECClient.__init__ and the calls on the client.            *)
(***************************************************************************)
NoCall ==
    [op |-> "__init__", ticker |-> <<>>, cik |-> <<>>, filters |-> NoFilter,
     kwargs |-> <<>>, accession_number |-> <<>>]

\* __init__: the session after SECClient(companies_data, user_agent)
InitWith(companies_data, user_agent_arg) ==
    /\ companies = companies_data
    /\ filings = <<>>
    /\ user_agent = user_agent_arg
    /\ call = NoCall
    /\ result = Return(NoValue)
    /\ requests = <<>>
    /\ response = NoResponse

Init == InitWith(SampleCompanies, DefaultUserAgent)

InitDirectory == \E companies_data \in Directories : InitWith(companies_data, DefaultUserAgent)

InitDownload == \E user_agent_arg \in UserAgents : InitWith(SampleCompanies, user_agent_arg)

\* a call that issues no request
NoRequest == requests' = <<>> /\ response' = NoResponse

\* add_filings_data: the data is loaded once, when the session is set up
\* and before its first query (cli.py main, the client fixture of the tests).
AddFilingsData(filings_data) ==
    /\ call.op = "__init__"
    /\ filings' = filings_data
    /\ call' = [NoCall EXCEPT !.op = "add_filings_data"]
    /\ result' = Return(NoValue)
    /\ NoRequest
    /\ UNCHANGED <<companies, user_agent>>

LookupCompany(ticker) ==
    /\ call' = [NoCall EXCEPT !.op = "lookup_company", !.ticker = ticker]
    /\ result' = lookup_company(companies, ticker)
    /\ NoRequest
    /\ UNCHANGED <<companies, filings, user_agent>>

\* FilingFilter(**kwargs), returning the criteria or raising
NewFilingFilter(kwargs) ==
    /\ call' = [NoCall EXCEPT !.op = "FilingFilter", !.kwargs = kwargs]
    /\ result' = FilingFilter(kwargs)
    /\ NoRequest
    /\ UNCHANGED <<companies, filings, user_agent>>

\* list_filings takes a FilingFilter that was constructed, so one whose
\* construction raised no error.
ListFilings(cik, kwargs) ==
    LET filters == FilingFilter(kwargs) IN
    /\ filters.status = "return"
    /\ call' = [NoCall EXCEPT !.op = "list_filings", !.cik = cik, !.kwargs = kwargs,
                              !.filters = filters.value]
    /\ result' = list_filings(filings, cik, filters.value)
    /\ filings' = CatalogAfterListFilings(filings, cik)
    /\ NoRequest
    /\ UNCHANGED <<companies, user_agent>>

\* download_filing; network_response is what the network answers when the
\* call sends its request, and nothing is answered when it sends none.
DownloadFiling(accession_number, cik, network_response) ==
    LET sent == DownloadRequests(user_agent, accession_number, cik, network_response)
        answer == IF sent = <<>> THEN NoResponse ELSE network_response
    IN  /\ call' = [NoCall EXCEPT !.op = "download_filing", !.cik = cik,
                                  !.accession_number = accession_number]
        /\ requests' = sent
        /\ response' = answer
        /\ result' = download_filing(accession_number, cik, answer)
        /\ UNCHANGED <<companies, filings, user_agent>>

\* Spec explores the catalog: every identifier with a few criteria, and every
\* criteria with the identifier of the sample company.
Next ==
    \/ \E filings_data \in Catalogs : AddFilingsData(filings_data)
    \/ \E ticker \in SampleTickers : LookupCompany(ticker)
    \/ \E kwargs \in SampleKwargs : NewFilingFilter(kwargs)
    \/ \E cik \in Ciks, kwargs \in SampleKwargs : ListFilings(cik, kwargs)
    \/ \E kwargs \in FilterKwargs : ListFilings(AppleCikRaw, kwargs)
    \/ \E accession_number \in SampleAccessions, network_response \in SampleResponses :
           DownloadFiling(accession_number, AppleCik, network_response)

\* SpecDirectory explores the Directory: every ticker on every directory.
NextDirectory ==
    \/ \E filings_data \in SampleCatalogs : AddFilingsData(filings_data)
    \/ \E ticker \in Tickers : LookupCompany(ticker)
    \/ \E kwargs \in SampleKwargs : NewFilingFilter(kwargs)
    \/ \E cik \in SampleCiks, kwargs \in SampleKwargs : ListFilings(cik, kwargs)
    \/ \E accession_number \in SampleAccessions, network_response \in SampleResponses :
           DownloadFiling(accession_number, AppleCik, network_response)

\* SpecDownload explores the calls that take no catalog: every accession
\* number and identifier with every answer of the network, and every
\* construction of filter criteria.
NextDownload ==
    \/ \E filings_data \in SampleCatalogs : AddFilingsData(filings_data)
    \/ \E ticker \in SampleTickers : LookupCompany(ticker)
    \/ \E kwargs \in ConstructorKwargs : NewFilingFilter(kwargs)
    \/ \E cik \in SampleCiks, kwargs \in SampleKwargs : ListFilings(cik, kwargs)
    \/ \E accession_number \in Accessions, cik \in DownloadCiks,
          network_response \in Responses :
           DownloadFiling(accession_number, cik, network_response)

Spec == Init /\ [][Next]_vars

SpecDirectory == InitDirectory /\ [][NextDirectory]_vars

SpecDownload == InitDownload /\ [][NextDownload]_vars

(***************************************************************************)
(* Properties of list_filings: filter, order, limit.                       *)
(***************************************************************************)
ListReturned == call.op = "list_filings" /\ result.status = "return"

\* form_types is specified when it is a list with a member; an empty list is
\* no filter, as an absent one.
FormTypesSpecified(filters) == filters.form_types.t = "list" /\ filters.form_types.s # <<>>

EqualIgnoringCase(a, b) ==
    Len(a) = Len(b) /\ \A i \in 1..Len(a) : UpperChar(a[i]) = UpperChar(b[i])

\* what the filter criteria ask of one Filing
Matches(f, filters) ==
    /\ FormTypesSpecified(filters) =>
           \E j \in 1..Len(filters.form_types.s) :
               EqualIgnoringCase(f.form_type, filters.form_types.s[j])
    /\ filters.date_from.t = "date" =>
           DateOrd(f.filing_date) >= DateOrd(filters.date_from.d)
    /\ filters.date_to.t = "date" =>
           DateOrd(f.filing_date) <= DateOrd(filters.date_to.d)

\* C1: every Filing list_filings returns has a form_type that is, ignoring
\* case, a member of form_types when form_types is specified, a filing_date
\* >= date_from when date_from is specified and <= date_to when date_to is
\* specified; and the result is no longer than limit.
ResultSatisfiesFilters ==
    ListReturned =>
        /\ Len(result.value) <= call.filters.limit
        /\ \A i \in 1..Len(result.value) : Matches(result.value[i], call.filters)

\* all three criteria given, and a Filing returned that another case of
\* letters in form_types selected
ResultSatisfiesFiltersWitness ==
    /\ ListReturned
    /\ FormTypesSpecified(call.filters)
    /\ call.filters.date_from.t = "date"
    /\ call.filters.date_to.t = "date"
    /\ Len(result.value) = call.filters.limit
    /\ \A j \in 1..Len(call.filters.form_types.s) :
           result.value[1].form_type # call.filters.form_types.s[j]

\* C2: the sequence list_filings returns is non-increasing by filing_date.
ResultNewestFirst ==
    ListReturned =>
        \A i \in 1..(Len(result.value) - 1) :
            DateOrd(result.value[i].filing_date) >= DateOrd(result.value[i + 1].filing_date)

\* two filings returned, the newer one second in the catalog's list
ResultNewestFirstWitness ==
    /\ ListReturned
    /\ Len(result.value) = 2
    /\ AppleCik \in DOMAIN filings
    /\ Len(filings[AppleCik]) = 2
    /\ DateOrd(result.value[1].filing_date) > DateOrd(result.value[2].filing_date)
    /\ result.value[1].accession_number = filings[AppleCik][2]["accession_number"].s

\* the valid records of the identifier of the call that pass the filters
MatchingFilings ==
    LET c == NormalizeCik(call.cik)
        Keep(f) == Matches(f, call.filters)
    IN  IF c \in DOMAIN filings THEN SelectSeq(ConvertFilings(filings[c], c), Keep) ELSE <<>>

Count(fs, f) == Cardinality({i \in 1..Len(fs) : fs[i] = f})

\* C3: list_filings returns min(limit, number of matching records) filings,
\* each a matching record and none more often than it matches, and no
\* matching record it leaves out is newer than one it returns.
ResultIsNewestMatching ==
    ListReturned =>
        LET m == MatchingFilings IN
        /\ Len(result.value) = (IF call.filters.limit < Len(m) THEN call.filters.limit ELSE Len(m))
        /\ \A i \in 1..Len(result.value) : Count(result.value, result.value[i]) <= Count(m, result.value[i])
        /\ \A j \in 1..Len(m) :
               Count(result.value, m[j]) < Count(m, m[j]) =>
                   \A i \in 1..Len(result.value) :
                       DateOrd(result.value[i].filing_date) >= DateOrd(m[j].filing_date)

\* more records match than the limit allows, and an older one was cut
ResultIsNewestMatchingWitness ==
    /\ ListReturned
    /\ Len(MatchingFilings) > call.filters.limit
    /\ Len(result.value) = call.filters.limit
    /\ \E j \in 1..Len(MatchingFilings) :
           DateOrd(MatchingFilings[j].filing_date) < DateOrd(result.value[1].filing_date)

(***************************************************************************)
(* Properties of lookup_company.                                           *)
(***************************************************************************)
LookupCalled == call.op = "lookup_company"

LookupKey == StrUpper(Strip(call.ticker))

\* the ticker of the call is a ticker of the Directory, in some letter case
\* and with or without whitespace round it
TickerPresent == \E k \in DOMAIN companies : EqualIgnoringCase(Strip(call.ticker), k)

\* the record has a cik_str other than the empty string and a title that is
\* a non-empty string
RecordComplete(company_info) ==
    /\ "cik_str" \in DOMAIN company_info
    /\ company_info["cik_str"] # PyStrVal(<<>>)
    /\ "title" \in DOMAIN company_info
    /\ company_info["title"].t = "str"
    /\ company_info["title"].s # <<>>

ResolvedToInput ==
    /\ result.status = "return"
    /\ result.value.ticker = LookupKey

\* C4, as claimed: for every ticker present in the Directory, in any letter
\* case and with or without surrounding whitespace, lookup_company succeeds
\* and returns a Company whose ticker is the trimmed, uppercased input.
PresentTickerResolves == (LookupCalled /\ TickerPresent) => ResolvedToInput

\* C4, amended: for every input whose trimmed, uppercased form is a key of
\* the Directory with a complete record, lookup_company succeeds and returns
\* a Company whose ticker is the trimmed, uppercased input.
CompleteTickerResolves ==
    (LookupCalled /\ LookupKey \in DOMAIN companies /\ RecordComplete(companies[LookupKey]))
        => ResolvedToInput

\* a lower-case ticker with whitespace round it resolved
CompleteTickerResolvesWitness ==
    /\ LookupCalled
    /\ call.ticker # Strip(call.ticker)
    /\ Strip(call.ticker) # LookupKey
    /\ result.status = "return"
    /\ result.value.ticker = <<"A", "A">>

\* The error kinds of lookup_company: both are ValueError, told apart by
\* the message (test_lookup_empty_ticker, test_lookup_invalid_ticker).
InvalidInputTicker == Raise("ValueError", "Ticker cannot be empty")
NotFoundTicker == Raise("ValueError", "Company with ticker not found")

\* C5: lookup_company on an empty or whitespace-only ticker fails as invalid
\* input, on a non-empty ticker absent from the Directory as not found; the
\* two failures differ and neither returns a Company.
EmptyAndAbsentTickersFail ==
    LookupCalled =>
        /\ Strip(call.ticker) = <<>> => result = InvalidInputTicker
        /\ (Strip(call.ticker) # <<>> /\ LookupKey \notin DOMAIN companies)
               => result = NotFoundTicker
        /\ InvalidInputTicker.msg # NotFoundTicker.msg
        /\ result.status = "raise" => result.value = NoValue

\* a whitespace-only ticker refused as invalid input, in a Directory with a company
EmptyAndAbsentTickersFailWitness ==
    /\ LookupCalled
    /\ call.ticker # <<>>
    /\ Strip(call.ticker) = <<>>
    /\ DOMAIN companies # {}
    /\ result = InvalidInputTicker

RECURSIVE NatValue(_)
NatValue(s) == IF s = <<>> THEN 0 ELSE NatValue(SubSeq(s, 1, Len(s) - 1)) * 10 + DigitVal(s[Len(s)])

RECURSIVE NumDigits(_)
NumDigits(n) == IF n < 10 THEN 1 ELSE 1 + NumDigits(n \div 10)

\* C6: the cik of the Company lookup_company returns is the decimal
\* rendering of the raw identifier, zero-padded on the left to 10 characters
\* when shorter and unchanged when it has 10 digits or more; padding it again
\* changes nothing.
CikIsPaddedIdentifier ==
    (LookupCalled /\ result.status = "return") =>
        LET raw == companies[LookupKey]["cik_str"]
            cik == result.value.cik
        IN  /\ raw.t = "int" =>
                   /\ IsDigit(cik)
                   /\ NatValue(cik) = raw.n
                   /\ Len(cik) = (IF NumDigits(raw.n) < CikWidth THEN CikWidth ELSE NumDigits(raw.n))
            /\ (raw.t = "str" /\ IsDigit(raw.s)) =>
                   /\ Len(raw.s) < CikWidth =>
                          /\ Len(cik) = CikWidth
                          /\ SubSeq(cik, CikWidth - Len(raw.s) + 1, CikWidth) = raw.s
                          /\ \A i \in 1..(CikWidth - Len(raw.s)) : cik[i] = "0"
                   /\ Len(raw.s) >= CikWidth => cik = raw.s
            /\ (raw.t = "int" \/ (raw.t = "str" /\ IsDigit(raw.s))) => Zfill(cik, CikWidth) = cik

\* a raw identifier of six digits, padded with four zeros
CikIsPaddedIdentifierWitness ==
    /\ LookupCalled
    /\ result.status = "return"
    /\ companies[LookupKey]["cik_str"] = PyInt(320193)
    /\ result.value.cik = AppleCik

\* C7: lookup_company on a ticker of the Directory whose record has a
\* missing or empty raw identifier, or a name that is missing or empty after
\* trimming, fails and returns no Company; and no Company it returns has a
\* ticker, identifier or name that is empty after trimming.
IncompleteRecordRejected ==
    LookupCalled =>
        /\ LookupKey \in DOMAIN companies =>
               LET company_info == companies[LookupKey]
                   no_identifier == \/ "cik_str" \notin DOMAIN company_info
                                    \/ company_info["cik_str"] = PyStrVal(<<>>)
                   no_name == \/ "title" \notin DOMAIN company_info
                              \/ company_info["title"].t = "none"
                              \/ /\ company_info["title"].t = "str"
                                 /\ Strip(company_info["title"].s) = <<>>
               IN  (no_identifier \/ no_name) => result.status = "raise"
        /\ result.status = "return" =>
               /\ Strip(result.value.ticker) # <<>>
               /\ Strip(result.value.cik) # <<>>
               /\ Strip(result.value.name) # <<>>

(***************************************************************************)
(* Properties of list_filings: the identifier and the raw records.         *)
(***************************************************************************)
ListCalled == call.op = "list_filings"

\* the identifier the catalog is asked for: trimmed, and zero-padded to 10
\* characters when all digits
CatalogKey ==
    IF IsDigit(Strip(call.cik)) /\ Len(Strip(call.cik)) < CikWidth
    THEN Zeros(CikWidth - Len(Strip(call.cik))) \o Strip(call.cik)
    ELSE Strip(call.cik)

IsMalformed(raw_filing) ==
    LET BadDate ==
            \/ "filing_date" \notin DOMAIN raw_filing
            \/ raw_filing["filing_date"].t \notin {"str", "date"}
            \/ /\ raw_filing["filing_date"].t = "str"
               /\ fromisoformat(raw_filing["filing_date"].s).status = "raise"
        BadStr(key) ==
            \/ key \notin DOMAIN raw_filing
            \/ raw_filing[key].t # "str"
            \/ Strip(raw_filing[key].s) = <<>>
    IN  BadDate \/ BadStr("form_type") \/ BadStr("accession_number")

WellFormedOnly(raw_filings) ==
    LET Keep(raw_filing) == ~IsMalformed(raw_filing) IN SelectSeq(raw_filings, Keep)

\* C9: a malformed raw record is skipped without an error: list_filings
\* returns, the record is not in the result, and the result is the one the
\* well-formed records of the list alone give.
MalformedRecordsSkipped ==
    (ListCalled /\ Strip(call.cik) # <<>> /\ CatalogKey \in DOMAIN filings) =>
        /\ result.status = "return"
        /\ \A i \in 1..Len(filings[CatalogKey]) :
               LET raw_filing == filings[CatalogKey][i] IN
               (IsMalformed(raw_filing) /\ "accession_number" \in DOMAIN raw_filing) =>
                   \A j \in 1..Len(result.value) :
                       result.value[j].accession_number # Strip(raw_filing["accession_number"].s)
        /\ result = list_filings([filings EXCEPT ![CatalogKey] = WellFormedOnly(@)],
                                 call.cik, call.filters)

\* a malformed record ahead of a well-formed one, which is returned
MalformedRecordsSkippedWitness ==
    /\ ListCalled
    /\ CatalogKey \in DOMAIN filings
    /\ Len(filings[CatalogKey]) = 2
    /\ IsMalformed(filings[CatalogKey][1])
    /\ ~IsMalformed(filings[CatalogKey][2])
    /\ result.status = "return"
    /\ Len(result.value) = 1

\* C10: for an identifier of digits only, also with whitespace round it,
\* list_filings returns what it returns for the identifier zero-padded to 10
\* characters, under the same filter criteria: the zero-padded identifier is
\* the one looked up and the one of the filings returned.
RawIdentifierAsPadded ==
    (ListCalled /\ IsDigit(Strip(call.cik))) =>
        /\ result = list_filings(filings, Zfill(Strip(call.cik), CikWidth), call.filters)
        /\ result.status = "return"
        /\ \A i \in 1..Len(result.value) : result.value[i].cik = Zfill(Strip(call.cik), CikWidth)

\* an unpadded identifier with whitespace round it, and filings returned
RawIdentifierAsPaddedWitness ==
    /\ ListCalled
    /\ call.cik = <<" ">> \o AppleCikRaw \o <<" ">>
    /\ result.status = "return"
    /\ result.value # <<>>

(***************************************************************************)
(* Properties of download_filing: the URL, the outcome, the requests.      *)
(***************************************************************************)
DownloadCalled == call.op = "download_filing"

RequestSent == DownloadCalled /\ requests # <<>>

\* the number of "0" characters s begins with
LeadingZeros(s) ==
    CHOOSE n \in 0..Len(s) :
        (\A i \in 1..n : s[i] = "0") /\ (n < Len(s) => s[n + 1] # "0")

WithoutLeadingZeros(s) == SubSeq(s, LeadingZeros(s) + 1, Len(s))

WithoutDashes(s) == SelectSeq(s, LAMBDA c : c # "-")

OnlyZeros(s) == s # <<>> /\ \A i \in 1..Len(s) : s[i] = "0"

\* C11: the URL that download_filing requests is the base URL, "/", the
\* trimmed identifier without its leading zeros, "/", the trimmed accession
\* number without its dashes, "/", the trimmed accession number and ".txt";
\* an identifier of zeros only leaves its path segment empty, the URL then
\* having "//" after the base URL.
UrlIsComposedOfTrimmedInputs ==
    RequestSent =>
        LET accession == Strip(call.accession_number)
            tail == WithoutDashes(accession) \o <<"/">> \o accession
                        \o <<".", "t", "x", "t">>
        IN  /\ requests[1].url =
                   BaseUrl \o <<"/">> \o WithoutLeadingZeros(Strip(call.cik))
                       \o <<"/">> \o tail
            /\ OnlyZeros(Strip(call.cik)) =>
                   requests[1].url = BaseUrl \o <<"/", "/">> \o tail

UrlIsComposedOfTrimmedInputsWitness ==
    /\ RequestSent
    /\ OnlyZeros(Strip(call.cik))
    /\ Len(Strip(call.cik)) > 1
    /\ call.accession_number # Strip(call.accession_number)
    /\ Strip(call.accession_number) # WithoutDashes(Strip(call.accession_number))

InvalidInputMessages == {"Accession number cannot be empty", "CIK cannot be empty"}

DownloadFailedMessages == {"Failed to download filing: HTTP ", "Failed to download filing: "}

\* the error kinds of download_filing, both raised as ValueError and told
\* apart by their message
IsInvalidInput(r) ==
    r.status = "raise" /\ r.exc = "ValueError" /\ r.msg \in InvalidInputMessages

IsDownloadFailed(r) ==
    r.status = "raise" /\ r.exc = "ValueError" /\ r.msg \in DownloadFailedMessages

InputIsEmpty == Strip(call.accession_number) = <<>> \/ Strip(call.cik) = <<>>

\* C13: one call of download_filing issues at most one request: none when
\* the accession number or the identifier is empty after trimming, the call
\* then failing as invalid input; else exactly one, a GET that carries the
\* User-Agent header of the client; and a call whose request failed has
\* issued that one request only.
AtMostOneRequestPerCall ==
    DownloadCalled =>
        /\ Len(requests) <= 1
        /\ InputIsEmpty =>
               requests = <<>> /\ response = NoResponse /\ IsInvalidInput(result)
        /\ ~InputIsEmpty =>
               /\ Len(requests) = 1
               /\ requests[1].method = "GET"
               /\ "User-Agent" \in DOMAIN requests[1].headers
               /\ requests[1].headers["User-Agent"] = user_agent
        /\ IsDownloadFailed(result) => Len(requests) = 1

AtMostOneRequestPerCallWitness ==
    /\ DownloadCalled
    /\ response.kind = "error"
    /\ IsDownloadFailed(result)
    /\ Len(requests) = 1
    /\ user_agent # DefaultUserAgent

(***************************************************************************)
(* Properties of FilingFilter.                                             *)
(***************************************************************************)
FilterConstructed == call.op = "FilingFilter"

IsValidationError(r) == r.status = "raise" /\ r.exc = "ValidationError"

\* date a is later than date b
Later(a, b) ==
    \/ a.year > b.year
    \/ a.year = b.year /\ a.month > b.month
    \/ a.year = b.year /\ a.month = b.month /\ a.day > b.day

GivenFutureDate(key) ==
    /\ key \in DOMAIN call.kwargs
    /\ call.kwargs[key].t = "date"
    /\ Later(call.kwargs[key].d, Today)

\* C14: constructing a FilingFilter raises a validation error when the limit
\* given is zero or negative and when the date_from or the date_to given is
\* later than today; constructed with no argument it has form_types,
\* date_from and date_to None and limit 10; and the FilingFilter of every
\* list_filings call has a limit of at least 1.
FilterConstructionValidated ==
    /\ FilterConstructed =>
           /\ ("limit" \in DOMAIN call.kwargs /\ call.kwargs["limit"].n <= 0) =>
                  IsValidationError(result)
           /\ (GivenFutureDate("date_from") \/ GivenFutureDate("date_to")) =>
                  IsValidationError(result)
           /\ call.kwargs = <<>> =>
                  result = Return([form_types |-> PyNone, date_from |-> PyNone,
                                   date_to |-> PyNone, limit |-> 10])
    /\ ListCalled => call.filters.limit >= 1

FilterConstructionValidatedWitness ==
    /\ FilterConstructed
    /\ "limit" \in DOMAIN call.kwargs
    /\ call.kwargs["limit"].n = 0
    /\ "date_to" \in DOMAIN call.kwargs
    /\ call.kwargs["date_to"].d = Today
    /\ ~GivenFutureDate("date_from")
    /\ IsValidationError(result)

(***************************************************************************)
(* Properties of the session: what the calls leave alone.                  *)
(***************************************************************************)
QueryOps == {"lookup_company", "list_filings", "download_filing"}

\* C15: no call of lookup_company, list_filings or download_filing, whether
\* it returns or raises, changes the Directory or the Catalog: after the call
\* both maps have the keys and the records they had before it, so no entry
\* is changed and none is deleted.
MapsAreReadOnly ==
    [][call'.op \in QueryOps => (companies' = companies /\ filings' = filings)]_vars

MapsAreReadOnlyWitness ==
    /\ call.op = "list_filings"
    /\ result.status = "return"
    /\ Len(result.value) = 2
    /\ result.value[1].accession_number # ConvertFiling(filings[AppleCik][1], AppleCik).value.accession_number

(***************************************************************************)
(* Properties of list_filings: the order of filings of equal date.         *)
(***************************************************************************)
\* the place, in the raw list of the catalog entry, of the record with the
\* accession number of the returned filing f
RawPosition(f) ==
    CHOOSE i \in 1..Len(filings[CatalogKey]) :
        /\ "accession_number" \in DOMAIN filings[CatalogKey][i]
        /\ Strip(filings[CatalogKey][i]["accession_number"].s) = f.accession_number

\* C16: two filings of equal filing_date that list_filings returns are in the
\* result in the order their records have in the raw list of the catalog
\* entry, the sort being stable though it is descending.
TiesKeepCatalogOrder ==
    (ListReturned /\ Len(result.value) >= 2) =>
        \A i, j \in 1..Len(result.value) :
            (i < j /\ result.value[i].filing_date = result.value[j].filing_date) =>
                RawPosition(result.value[i]) < RawPosition(result.value[j])

TiesKeepCatalogOrderWitness ==
    /\ ListReturned
    /\ Len(result.value) >= 2
    /\ result.value[1].filing_date = result.value[2].filing_date
    /\ result.value[1].form_type = Form10Q
    /\ RawPosition(result.value[1]) < RawPosition(result.value[2])

====
